---- MODULE Spec2Model ----
(***************************************************************************)
(* ChronoMover: the calendar-period engine (src/date.rs) and the move      *)
(* planner (src/file.rs), as a state machine.                              *)
(*                                                                         *)
(* A DateTime<Utc> is an integer number of ticks since 1970-01-01T00:00Z,  *)
(* TicksPerDay ticks to the day; a calendar date is a number of days since *)
(* 1970-01-01.  A path is the sequence of its components below "/".        *)
(***************************************************************************)
EXTENDS Integers, Sequences, FiniteSets, TLC

VARIABLES
    debug_assertions,   \* build profile: cfg(debug_assertions)
    pc,                 \* position of the running call / of main
    call,               \* the function applied on its own and its arguments
    ret,                \* outcome of that call
    args,               \* main: the parsed command line (Args)
    now,                \* main: Utc::now(), taken once
    metadata,           \* the file system: metadata of each file
    entries,            \* the files walk_source_folder yields, in its order
    index,              \* get_files_to_move: position of the for loop
    files_to_move,      \* get_files_to_move: the plan built so far
    fs_files,           \* the file system: content of the file at each path
    fs_dirs,            \* the file system: the directories
    item,               \* move_files: position of the for loop
    success_count,      \* move_files: files reported as moved
    log,                \* the lines move_files writes per file and at its end
    walk,               \* delete_empty_directories: rest of the current pass
    found_empty,        \* delete_empty_directories: found_empty
    deleted_dirs        \* delete_empty_directories: deleted_dirs

runVars == <<fs_files, fs_dirs, item, success_count, log, walk, found_empty,
             deleted_dirs>>

progVars == <<args, now, metadata, entries, index, files_to_move, runVars>>

vars == <<debug_assertions, pc, call, ret, args, now, metadata, entries,
          index, files_to_move, fs_files, fs_dirs, item, success_count, log,
          walk, found_empty, deleted_dirs>>

-----------------------------------------------------------------------------
(* Bounds of the model                                                     *)

TicksPerDay == 2        \* resolution of an instant within a day
DayStep == 5            \* sampling stride of the calendar window, in days
NewYearMargin == 4      \* days around each 1 January that are all sampled
NowStep == 45           \* sampling stride of the reference instant "now"
MaxArg == 54            \* largest month / ISO week number handed to date.rs

-----------------------------------------------------------------------------
(* chrono: proleptic Gregorian calendar and ISO 8601 week dates            *)

None == "None"

\* A u32 is held as its 32-bit pattern: a pattern of 2^31 or more reads as
\* the negative integer pattern - 2^32.  Arguments are small and non-negative.
I32Max == 2147483647

\* a - b in u32, wrapping (overflow checks are off in a release build)
u32_sub(a, b) == a - b

\* x / k in u32, for k in 2..4
u32_div(x, k) ==
    IF x >= 0 THEN x \div k
    ELSE 2 * (I32Max \div k) + (2 * (I32Max % k) + 2 + x) \div k

\* a + b in u32, for non-negative a and b
u32_add(a, b) ==
    IF a <= I32Max - b THEN a + b ELSE (a - I32Max) + (b - I32Max - 2)

days_from_civil(y, m, d) ==
    LET yy == IF m <= 2 THEN y - 1 ELSE y
        era == yy \div 400
        yoe == yy - era * 400
        mp == IF m > 2 THEN m - 3 ELSE m + 9
        doy == (153 * mp + 2) \div 5 + d - 1
        doe == yoe * 365 + yoe \div 4 - yoe \div 100 + doy
    IN  era * 146097 + doe - 719468

civil_from_days(n) ==
    LET z == n + 719468
        era == z \div 146097
        doe == z - era * 146097
        yoe == (doe - doe \div 1460 + doe \div 36524 - doe \div 146096) \div 365
        doy == doe - (365 * yoe + yoe \div 4 - yoe \div 100)
        mp == (5 * doy + 2) \div 153
        d == doy - (153 * mp + 2) \div 5 + 1
        m == IF mp < 10 THEN mp + 3 ELSE mp - 9
        y == yoe + era * 400 + (IF m <= 2 THEN 1 ELSE 0)
    IN  [year |-> y, month |-> m, day |-> d]

\* DateTime<Utc>::date_naive
date_naive(t) == t \div TicksPerDay

\* Datelike::year, Datelike::month
year(t) == civil_from_days(date_naive(t)).year

month(t) == civil_from_days(date_naive(t)).month

\* Datelike::weekday, 1 = Monday .. 7 = Sunday (1970-01-01 was a Thursday)
weekday(n) == ((n + 3) % 7) + 1

\* Datelike::ordinal, 1 = 1 January
ordinal(n) == n - days_from_civil(civil_from_days(n).year, 1, 1) + 1

\* number of ISO weeks of a year: 53 when 1 January is a Thursday, or a
\* Wednesday in a leap year
is_leap_year(y) == (y % 4 = 0 /\ y % 100 # 0) \/ y % 400 = 0

weeks_in_year(y) ==
    LET jan1 == weekday(days_from_civil(y, 1, 1))
    IN  IF jan1 = 4 \/ (jan1 = 3 /\ is_leap_year(y)) THEN 53 ELSE 52

\* Datelike::iso_week: IsoWeek { year, week }
iso_week(t) ==
    LET n == date_naive(t)
        y == civil_from_days(n).year
        w == (ordinal(n) - weekday(n) + 10) \div 7
    IN  IF w < 1 THEN [year |-> y - 1, week |-> weeks_in_year(y - 1)]
        ELSE IF w > weeks_in_year(y) THEN [year |-> y + 1, week |-> 1]
        ELSE [year |-> y, week |-> w]

-----------------------------------------------------------------------------
(* date.rs: period arithmetic                                              *)

\* the condition of debug_assert! in validate_month
validate_month(m) == m >= 1 /\ m <= 12

\* mutant: the first semester ends a month early
calculate_semester_lt(m) == IF m < 6 THEN 1 ELSE 2

calculate_semester(m) == IF m <= 6 THEN 1 ELSE 2

calculate_trimester(m) == u32_add(u32_div(u32_sub(m, 1), 3), 1)

calculate_quadrimester(m) == u32_add(u32_div(u32_sub(m, 1), 4), 1)

\* the condition of debug_assert! in calculate_biweekly
validate_iso_week(w) == w > 0 /\ w <= 53

\* mutant: the week is not shifted to 0-based before halving
calculate_biweekly_unshifted(w) ==
    IF w >= 51 THEN 26 ELSE u32_add(u32_div(w, 2), 1)

\* mutant: weeks 51 to 53 are not collapsed
calculate_biweekly_uncollapsed(w) == u32_add(u32_div(u32_sub(w, 1), 2), 1)

calculate_biweekly(w) ==
    IF w >= 51 THEN 26 ELSE u32_add(u32_div(u32_sub(w, 1), 2), 1)

\* a debug_assert! panics only in a build with debug assertions; the period
\* engine below hands these functions chrono's month (1..12) and ISO week
\* (1..53), for which the asserted conditions hold
Panic == [panic |-> TRUE]

Returned(v) == [panic |-> FALSE, val |-> v]

checked(cond, v) == IF debug_assertions /\ ~cond THEN Panic ELSE Returned(v)

-----------------------------------------------------------------------------
(* date.rs: period identifiers and the "before the current period" tests   *)

\* (a, b) < (c, d) on Rust tuples: lexicographic
tuple_lt(a, b) == a[1] < b[1] \/ (a[1] = b[1] /\ a[2] < b[2])

\* mutant: the ISO week beside the calendar year
get_current_week_calendar_year(t) == <<year(t), iso_week(t).week>>

get_current_week(t) == <<iso_week(t).year, iso_week(t).week>>

get_current_month(t) == <<year(t), month(t)>>

get_current_year(t) == year(t)

get_current_semester(t) == <<year(t), calculate_semester(month(t))>>

get_current_trimester(t) == <<year(t), calculate_trimester(month(t))>>

get_current_quadrimester(t) == <<year(t), calculate_quadrimester(month(t))>>

get_current_biweekly(t) ==
    <<iso_week(t).year, calculate_biweekly(iso_week(t).week)>>

\* mutant: only the week numbers are compared
is_before_current_week_no_year(date, t) == iso_week(date).week < iso_week(t).week

is_before_current_week(date, t) ==
    LET current == get_current_week(t)
        file_week == iso_week(date)
        file_identifier == <<file_week.year, file_week.week>>
    IN  tuple_lt(file_identifier, current)

is_before_current_month(date, t) ==
    LET current == get_current_month(t)
        file_identifier == <<year(date), month(date)>>
    IN  tuple_lt(file_identifier, current)

is_before_current_year(date, t) == year(date) < get_current_year(t)

is_before_current_semester(date, t) ==
    LET current == get_current_semester(t)
        file_identifier == <<year(date), calculate_semester(month(date))>>
    IN  tuple_lt(file_identifier, current)

is_before_current_trimester(date, t) ==
    LET current == get_current_trimester(t)
        file_identifier == <<year(date), calculate_trimester(month(date))>>
    IN  tuple_lt(file_identifier, current)

is_before_current_quadrimester(date, t) ==
    LET current == get_current_quadrimester(t)
        file_identifier == <<year(date), calculate_quadrimester(month(date))>>
    IN  tuple_lt(file_identifier, current)

\* mutant: the calendar year stands in for the ISO week-year
is_before_current_biweekly_calendar_year(date, t) ==
    tuple_lt(<<year(date), calculate_biweekly(iso_week(date).week)>>,
             <<year(t), calculate_biweekly(iso_week(t).week)>>)

is_before_current_biweekly(date, t) ==
    LET current == get_current_biweekly(t)
        file_week == iso_week(date)
        file_identifier == <<file_week.year, calculate_biweekly(file_week.week)>>
    IN  tuple_lt(file_identifier, current)

\* format!("{}", n): the decimal digits of n, "-" first when n is negative
digit(d) ==
    CASE d = 0 -> "0" [] d = 1 -> "1" [] d = 2 -> "2" [] d = 3 -> "3"
      [] d = 4 -> "4" [] d = 5 -> "5" [] d = 6 -> "6" [] d = 7 -> "7"
      [] d = 8 -> "8" [] d = 9 -> "9"

RECURSIVE decimal(_)
decimal(n) == IF n < 10 THEN digit(n) ELSE decimal(n \div 10) \o digit(n % 10)

fmt_display(n) == IF n < 0 THEN "-" \o decimal(0 - n) ELSE decimal(n)

\* format!("{:02}", n): at least two characters, padded with "0" on the left
fmt_02(n) == IF Len(fmt_display(n)) < 2 THEN "0" \o fmt_display(n) ELSE fmt_display(n)

\* mutant: the calendar year stands in for the ISO week-year
get_week_identifier_calendar_year(date) ==
    fmt_display(year(date)) \o "-W" \o fmt_02(iso_week(date).week)

get_week_identifier(date) ==
    fmt_display(iso_week(date).year) \o "-W" \o fmt_02(iso_week(date).week)

get_month_identifier(date) ==
    fmt_display(year(date)) \o "-" \o fmt_02(month(date))

get_year_identifier(date) == fmt_display(year(date))

get_semester_identifier(date) ==
    fmt_display(year(date)) \o "-H" \o fmt_display(calculate_semester(month(date)))

get_trimester_identifier(date) ==
    fmt_display(year(date)) \o "-Q" \o fmt_display(calculate_trimester(month(date)))

get_quadrimester_identifier(date) ==
    fmt_display(year(date)) \o "-QD" \o fmt_display(calculate_quadrimester(month(date)))

get_biweekly_identifier(date) ==
    fmt_display(iso_week(date).year) \o "-BW"
        \o fmt_02(calculate_biweekly(iso_week(date).week))

-----------------------------------------------------------------------------
(* file.rs: the two matches on args.group_by                               *)

GroupBy == {"Week", "Biweekly", "Month", "Trimester", "Quadrimester",
            "Semester", "Year"}

\* should_move_file: let is_before_current = match group { .. }
\* mutant: the period of now counts as a previous period
is_before_current_or_in(group, file_datetime, t) ==
    CASE group = "Week" -> ~is_before_current_week(t, file_datetime)
      [] group = "Month" -> ~is_before_current_month(t, file_datetime)
      [] group = "Year" -> ~is_before_current_year(t, file_datetime)
      [] group = "Semester" -> ~is_before_current_semester(t, file_datetime)
      [] group = "Trimester" -> ~is_before_current_trimester(t, file_datetime)
      [] group = "Quadrimester" -> ~is_before_current_quadrimester(t, file_datetime)
      [] group = "Biweekly" -> ~is_before_current_biweekly(t, file_datetime)

is_before_current(group, file_datetime, t) ==
    CASE group = "Week" -> is_before_current_week(file_datetime, t)
      [] group = "Month" -> is_before_current_month(file_datetime, t)
      [] group = "Year" -> is_before_current_year(file_datetime, t)
      [] group = "Semester" -> is_before_current_semester(file_datetime, t)
      [] group = "Trimester" -> is_before_current_trimester(file_datetime, t)
      [] group = "Quadrimester" -> is_before_current_quadrimester(file_datetime, t)
      [] group = "Biweekly" -> is_before_current_biweekly(file_datetime, t)

\* get_files_to_move: let group_folder = match args.group_by { .. }
group_folder(group_by, file_datetime) ==
    CASE group_by = "Week" -> get_week_identifier(file_datetime)
      [] group_by = "Month" -> get_month_identifier(file_datetime)
      [] group_by = "Year" -> get_year_identifier(file_datetime)
      [] group_by = "Semester" -> get_semester_identifier(file_datetime)
      [] group_by = "Trimester" -> get_trimester_identifier(file_datetime)
      [] group_by = "Quadrimester" -> get_quadrimester_identifier(file_datetime)
      [] group_by = "Biweekly" -> get_biweekly_identifier(file_datetime)
      [] group_by = None -> None

-----------------------------------------------------------------------------
(* Option<T> and Result<T>                                                 *)

NoneOpt == <<>>

Some(x) == <<x>>

is_some(o) == Len(o) > 0

unwrap(o) == o[1]

Ok(v) == [ok |-> TRUE, val |-> v]

Err(msg) == [ok |-> FALSE, err |-> msg]

-----------------------------------------------------------------------------
(* date.rs: the effective date of a file                                   *)

FileDateType == {"Created", "Modified", "Accessed"}

\* fs::metadata and Metadata::created / modified / accessed: md.ok tells
\* whether the metadata can be read, and each time is Some(instant) or, when
\* the platform or file system does not record it, NoneOpt
get_file_timestamps(md) ==
    IF ~md.ok THEN Err("Failed to get metadata")
    ELSE IF ~is_some(md.created) THEN Err("Failed to get creation time")
    ELSE IF ~is_some(md.modified) THEN Err("Failed to get modified time")
    ELSE IF ~is_some(md.accessed) THEN Err("Failed to get accessed time")
    ELSE Ok([created |-> unwrap(md.created),
             modified |-> unwrap(md.modified),
             accessed |-> unwrap(md.accessed)])

\* mutant: the oldest of the selected timestamps is taken
RECURSIVE iter_min(_)
iter_min(seq) ==
    IF Len(seq) = 0 THEN NoneOpt
    ELSE LET rest == iter_min(Tail(seq))
         IN  IF is_some(rest) /\ unwrap(rest) <= Head(seq) THEN rest
             ELSE Some(Head(seq))

\* mutant: the maximum of no instants is the epoch
RECURSIVE iter_max_or_epoch(_)
iter_max_or_epoch(seq) ==
    IF Len(seq) = 0 THEN Some(0)
    ELSE LET rest == iter_max_or_epoch(Tail(seq))
         IN  IF unwrap(rest) >= Head(seq) THEN rest ELSE Some(Head(seq))

\* Iterator::max over a sequence of instants: None when it is empty
RECURSIVE iter_max(_)
iter_max(seq) ==
    IF Len(seq) = 0 THEN NoneOpt
    ELSE LET rest == iter_max(Tail(seq))
         IN  IF is_some(rest) /\ unwrap(rest) >= Head(seq) THEN rest
             ELSE Some(Head(seq))

get_file_date(md, date_types) ==
    LET file_timestamps == get_file_timestamps(md)
    IN  IF ~file_timestamps.ok THEN file_timestamps
        ELSE LET timestamps == iter_max(
                    [i \in 1..Len(date_types) |->
                        CASE date_types[i] = "Created" -> file_timestamps.val.created
                          [] date_types[i] = "Modified" -> file_timestamps.val.modified
                          [] date_types[i] = "Accessed" -> file_timestamps.val.accessed])
             IN  IF is_some(timestamps) THEN Ok(unwrap(timestamps))
                 ELSE Err("At least one file date type must be provided")

-----------------------------------------------------------------------------
(* file.rs: the filters and the destination of one file                    *)

\* mutant: a file dated exactly at the cutoff passes the age filter
should_move_file_gt(file_datetime, group_by, previous_period_only, older_than, t) ==
    IF is_some(older_than) /\ file_datetime > unwrap(older_than) THEN FALSE
    ELSE IF previous_period_only /\ group_by # None
            /\ ~is_before_current(group_by, file_datetime, t) THEN FALSE
    ELSE TRUE

\* mutant: the previous-period-only flag is not looked at
should_move_file_any_period(file_datetime, group_by, previous_period_only, older_than, t) ==
    IF is_some(older_than) /\ file_datetime >= unwrap(older_than) THEN FALSE
    ELSE TRUE

\* mutant: previous-period-only without a granularity excludes every file
should_move_file_needs_group(file_datetime, group_by, previous_period_only, older_than, t) ==
    IF is_some(older_than) /\ file_datetime >= unwrap(older_than) THEN FALSE
    ELSE IF previous_period_only
            /\ (group_by = None \/ ~is_before_current(group_by, file_datetime, t))
    THEN FALSE
    ELSE TRUE

should_move_file(file_datetime, group_by, previous_period_only, older_than, t) ==
    IF is_some(older_than) /\ file_datetime >= unwrap(older_than) THEN FALSE
    ELSE IF previous_period_only /\ group_by # None
            /\ ~is_before_current(group_by, file_datetime, t) THEN FALSE
    ELSE TRUE

\* Path::starts_with, Path::strip_prefix and Path::join on component
\* sequences; an absolute path has "/" as its first component
starts_with(path, base) ==
    Len(base) <= Len(path) /\ SubSeq(path, 1, Len(base)) = base

strip_prefix(path, base) ==
    IF starts_with(path, base) THEN Ok(SubSeq(path, Len(base) + 1, Len(path)))
    ELSE Err("prefix not found")

join(path, other) ==
    IF Len(other) > 0 /\ Head(other) = "/" THEN other ELSE path \o other

\* mutant: the directories between the source root and the file are dropped
calculate_dest_path_flat(source_path, source_root, dest_root, folder) ==
    LET relative_path == strip_prefix(source_path, source_root)
        file_name == IF Len(source_path) = 0 THEN <<>>
                     ELSE <<source_path[Len(source_path)]>>
    IN  IF ~relative_path.ok THEN Err("Failed to compute relative path")
        ELSE IF folder # None
             THEN Ok(join(join(dest_root, <<folder>>), file_name))
             ELSE Ok(join(dest_root, file_name))

calculate_dest_path(source_path, source_root, dest_root, folder) ==
    LET relative_path == strip_prefix(source_path, source_root)
    IN  IF ~relative_path.ok THEN Err("Failed to compute relative path")
        ELSE IF folder # None
             THEN Ok(join(join(dest_root, <<folder>>), relative_path.val))
             ELSE Ok(join(dest_root, relative_path.val))

-----------------------------------------------------------------------------
(* The harness: one call of a pure function, then its return               *)

NoRet == [panic |-> FALSE, val |-> None]

NoCall == [fn |-> None]

\* main is not running
NoProgram ==
    /\ args = None
    /\ now = 0
    /\ metadata = <<>>
    /\ entries = <<>>
    /\ index = 0
    /\ files_to_move = <<>>
    /\ fs_files = <<>>
    /\ fs_dirs = {}
    /\ item = 0
    /\ success_count = 0
    /\ log = <<>>
    /\ walk = <<>>
    /\ found_empty = FALSE
    /\ deleted_dirs = <<>>

Return(v) ==
    /\ pc = "call"
    /\ pc' = "return"
    /\ ret' = v
    /\ UNCHANGED <<debug_assertions, call>>
    /\ UNCHANGED progVars

returned == pc = "return" /\ ~ret.panic

-----------------------------------------------------------------------------
(* Period arithmetic applied to every month / week number                  *)

ArithFns == {"calculate_semester", "calculate_trimester",
             "calculate_quadrimester", "calculate_biweekly"}

InitArith ==
    /\ debug_assertions \in BOOLEAN
    /\ pc = "call"
    /\ call \in [fn : ArithFns, arg : 0..MaxArg]
    /\ ret = NoRet
    /\ NoProgram

call_calculate_semester ==
    /\ call.fn = "calculate_semester"
    /\ Return(checked(validate_month(call.arg), calculate_semester(call.arg)))

call_calculate_trimester ==
    /\ call.fn = "calculate_trimester"
    /\ Return(checked(validate_month(call.arg), calculate_trimester(call.arg)))

call_calculate_quadrimester ==
    /\ call.fn = "calculate_quadrimester"
    /\ Return(checked(validate_month(call.arg), calculate_quadrimester(call.arg)))

call_calculate_biweekly ==
    /\ call.fn = "calculate_biweekly"
    /\ Return(checked(validate_iso_week(call.arg), calculate_biweekly(call.arg)))

NextArith ==
    \/ call_calculate_semester
    \/ call_calculate_trimester
    \/ call_calculate_quadrimester
    \/ call_calculate_biweekly

SpecArith == InitArith /\ [][NextArith]_vars

-----------------------------------------------------------------------------
(* The period engine applied to the instants of a calendar window          *)

WindowDays == 752       \* length of the calendar window, in days

WindowStart == days_from_civil(2024, 12, 20)

\* dates named by the tests of date.rs and file.rs
KeyDays == {days_from_civil(2024, 12, 30), days_from_civil(2025, 1, 6),
            days_from_civil(2025, 5, 1), days_from_civil(2025, 5, 20),
            days_from_civil(2025, 6, 8), days_from_civil(2025, 6, 15),
            days_from_civil(2025, 6, 30), days_from_civil(2025, 8, 15),
            days_from_civil(2025, 12, 29)}

NearNewYear(n) ==
    ordinal(n) <= NewYearMargin \/ ordinal(n + NewYearMargin) <= NewYearMargin

Days == {n \in WindowStart..(WindowStart + WindowDays - 1) :
            (n - WindowStart) % DayStep = 0 \/ NearNewYear(n) \/ n \in KeyDays}

NowDays == {n \in Days :
            (n - WindowStart) % NowStep = 0 \/ NearNewYear(n) \/ n \in KeyDays}

Instants == {n * TicksPerDay + k : n \in Days, k \in 0..(TicksPerDay - 1)}

NowInstants == {n * TicksPerDay + (n % TicksPerDay) : n \in NowDays}

InitDate ==
    /\ debug_assertions \in BOOLEAN
    /\ pc = "call"
    /\ call \in [fn : {"is_before_current"}, group : GroupBy,
                  date : Instants, now : NowInstants]
           \cup [fn : {"group_folder"}, group : GroupBy \cup {None},
                  date : Instants]
    /\ ret = NoRet
    /\ NoProgram

call_is_before_current ==
    /\ call.fn = "is_before_current"
    /\ Return(Returned(is_before_current(call.group, call.date, call.now)))

call_group_folder ==
    /\ call.fn = "group_folder"
    /\ Return(Returned(group_folder(call.group, call.date)))

NextDate == call_is_before_current \/ call_group_folder

SpecDate == InitDate /\ [][NextDate]_vars

-----------------------------------------------------------------------------
(* get_file_date applied to every list of kinds and every metadata         *)

MaxKinds == 3           \* longest list of requested timestamp kinds

\* the instants a file of the examples can carry
FileInstants ==
    {days_from_civil(2024, 12, 30) * TicksPerDay,
     days_from_civil(2025, 5, 1) * TicksPerDay,
     days_from_civil(2025, 6, 15) * TicksPerDay + 1,
     days_from_civil(2025, 12, 29) * TicksPerDay}

SeqsUpTo(S, n) == UNION {[1..k -> S] : k \in 0..n}

Metadatas ==
    [ok : BOOLEAN,
     created : {NoneOpt} \cup {Some(t) : t \in FileInstants},
     modified : {NoneOpt} \cup {Some(t) : t \in FileInstants},
     accessed : {NoneOpt} \cup {Some(t) : t \in FileInstants}]

InitFileDate ==
    /\ debug_assertions \in BOOLEAN
    /\ pc = "call"
    /\ call \in [fn : {"get_file_date"}, md : Metadatas,
                  date_types : SeqsUpTo(FileDateType, MaxKinds)]
    /\ ret = NoRet
    /\ NoProgram

call_get_file_date ==
    /\ call.fn = "get_file_date"
    /\ Return(Returned(get_file_date(call.md, call.date_types)))

NextFileDate == call_get_file_date

SpecFileDate == InitFileDate /\ [][NextFileDate]_vars

-----------------------------------------------------------------------------
(* should_move_file applied to every filter configuration                  *)

Cutoffs ==
    {NoneOpt} \cup {Some(t) : t \in FileInstants}
              \cup {Some(days_from_civil(2025, 6, 1) * TicksPerDay)}

FilterNows ==
    {days_from_civil(2025, 5, 20) * TicksPerDay,
     days_from_civil(2025, 6, 15) * TicksPerDay,
     days_from_civil(2025, 12, 30) * TicksPerDay + 1,
     days_from_civil(2026, 1, 2) * TicksPerDay}

FilterDates ==
    {t + k : t \in FileInstants \cup FilterNows, k \in 0..(TicksPerDay - 1)}

InitFilter ==
    /\ debug_assertions \in BOOLEAN
    /\ pc = "call"
    /\ call \in [fn : {"should_move_file"}, file_datetime : FilterDates,
                  group_by : GroupBy \cup {None},
                  previous_period_only : BOOLEAN,
                  older_than : Cutoffs, now : FilterNows]
    /\ ret = NoRet
    /\ NoProgram

call_should_move_file ==
    /\ call.fn = "should_move_file"
    /\ Return(Returned(should_move_file(call.file_datetime, call.group_by,
                call.previous_period_only, call.older_than, call.now)))

NextFilter == call_should_move_file

SpecFilter == InitFilter /\ [][NextFilter]_vars

-----------------------------------------------------------------------------
(* calculate_dest_path applied to paths under and outside the source root  *)

MaxDepth == 3           \* longest path below a root, in components

Names == {"a", "work", "note.md"}

Roots == {<<"/", "src">>, <<"/", "notes">>, <<"/", "src", "work">>, <<"notes">>}

DestRoots == {<<"/", "dest">>, <<"/", "src", "archive">>, <<"archive">>}

\* the non-empty relative paths
Rels == SeqsUpTo(Names, MaxDepth) \ {<<>>}

Folders == {None, "2025-05", "2026-W01", "2025"}

InitDest ==
    /\ debug_assertions \in BOOLEAN
    /\ pc = "call"
    /\ call \in [fn : {"calculate_dest_path"},
                  source_path : {r \o rel : r \in Roots, rel \in SeqsUpTo(Names, MaxDepth)},
                  source_root : Roots, dest_root : DestRoots,
                  group_folder : Folders]
    /\ ret = NoRet
    /\ NoProgram

call_calculate_dest_path ==
    /\ call.fn = "calculate_dest_path"
    /\ Return(Returned(calculate_dest_path(call.source_path, call.source_root,
                call.dest_root, call.group_folder)))

NextDest == call_calculate_dest_path

SpecDest == InitDest /\ [][NextDest]_vars

-----------------------------------------------------------------------------
(* main: validate_arguments, then get_files_to_move                        *)

Instant(y, m, d, tick) == days_from_civil(y, m, d) * TicksPerDay + tick

SourceRoot == <<"/", "src">>

Files == {SourceRoot \o <<"a", "note.md">>, SourceRoot \o <<"note.md">>}

\* metadata of a file of the examples; the last two cannot be dated
FileMetadatas ==
    {[ok |-> TRUE, created |-> Some(Instant(2024, 12, 30, 0)),
      modified |-> Some(Instant(2024, 12, 30, 0)),
      accessed |-> Some(Instant(2025, 12, 29, 0))],
     [ok |-> TRUE, created |-> Some(Instant(2024, 12, 30, 0)),
      modified |-> Some(Instant(2025, 5, 1, 0)),
      accessed |-> Some(Instant(2025, 12, 29, 0))],
     [ok |-> TRUE, created |-> Some(Instant(2025, 6, 15, 1)),
      modified |-> Some(Instant(2025, 5, 1, 0)),
      accessed |-> Some(Instant(2025, 12, 29, 0))],
     [ok |-> TRUE, created |-> Some(Instant(2025, 12, 29, 0)),
      modified |-> Some(Instant(2025, 12, 29, 0)),
      accessed |-> Some(Instant(2025, 12, 29, 0))],
     [ok |-> FALSE, created |-> NoneOpt, modified |-> NoneOpt,
      accessed |-> NoneOpt],
     [ok |-> TRUE, created |-> NoneOpt,
      modified |-> Some(Instant(2025, 5, 1, 0)),
      accessed |-> Some(Instant(2025, 12, 29, 0))]}

\* the directories of a file system that holds the given files and
\* directories: every proper prefix of a file's path and every prefix of a
\* directory's path
Ancestors(path) == {SubSeq(path, 1, k) : k \in 1..(Len(path) - 1)}

Tree(files, dirs) ==
    UNION {Ancestors(path) : path \in files}
        \cup UNION {Ancestors(path) \cup {path} : path \in dirs}

\* the locals of move_files and delete_empty_directories before the calls
NotStarted ==
    /\ item = 1
    /\ success_count = 0
    /\ log = <<>>
    /\ walk = <<>>
    /\ found_empty = FALSE
    /\ deleted_dirs = <<>>

\* the orders in which a walk can yield the files of S
Orders(S) ==
    {o \in [1..Cardinality(S) -> S] : \A i, j \in DOMAIN o : i # j => o[i] # o[j]}

ArgsSet ==
    [source : {SourceRoot},
     destination : {<<"/", "dest">>, SourceRoot},
     group_by : GroupBy \cup {None},
     previous_period_only : BOOLEAN,
     older_than : {NoneOpt, Some(Instant(2025, 5, 1, 0)),
                   Some(Instant(2025, 6, 1, 0))},
     file_date_types : {<<"Created", "Modified">>, <<"Modified">>},
     ignored_paths : {NoneOpt, Some(<<SourceRoot \o <<"a">>>>),
                      Some(<<SourceRoot \o <<"no">>, SourceRoot \o <<"b">>>>)}]

Init ==
    /\ debug_assertions \in BOOLEAN
    /\ pc = "validate_arguments"
    /\ call = NoCall
    /\ ret = NoRet
    /\ args \in ArgsSet
    /\ now \in {Instant(2025, 5, 20, 0), Instant(2025, 6, 15, 0),
                 Instant(2026, 1, 2, 1)}
    /\ metadata \in [Files -> FileMetadatas]
    /\ entries \in Orders(Files)
    /\ index = 1
    /\ files_to_move = <<>>
    /\ fs_files = [path \in Files |-> path]
    /\ fs_dirs = Tree(Files, {args.source, args.destination})
    /\ NotStarted

\* fs::create_dir_all(path) creates the missing directories of path from the
\* top. It gets as far as `reach` components and succeeds when that is the
\* whole path; it stops short where a directory cannot be created, and never
\* gets past a file standing in the way.
Reaches(path) ==
    {reach \in 1..Len(path) :
        /\ \A k \in 1..reach : SubSeq(path, 1, k) \notin DOMAIN fs_files
        /\ reach = Len(path) \/ SubSeq(path, 1, reach + 1) \notin fs_dirs}

create_dir_all(path, reach) ==
    fs_dirs \cup {SubSeq(path, 1, k) : k \in 1..reach}

\* the source is an existing directory and no depth bound is given, so the
\* checks that can fail are the creation of a missing destination and
\* source == destination
validate_arguments ==
    /\ pc = "validate_arguments"
    /\ IF args.destination \notin fs_dirs
       THEN \E reach \in Reaches(args.destination) :
               /\ fs_dirs' = create_dir_all(args.destination, reach)
               /\ pc' = IF reach < Len(args.destination) THEN "bail"
                        ELSE IF args.source = args.destination THEN "bail"
                        ELSE "get_files_to_move"
       ELSE /\ fs_dirs' = fs_dirs
            /\ pc' = IF args.source = args.destination THEN "bail"
                     ELSE "get_files_to_move"
    /\ UNCHANGED <<debug_assertions, call, ret, args, now, metadata, entries,
                   index, files_to_move, fs_files, item, success_count, log,
                   walk, found_empty, deleted_dirs>>

\* mutant: only the ignored path itself is ignored, not what lies below it
is_inside_ignored_folder_exact(path) ==
    /\ is_some(args.ignored_paths)
    /\ \E i \in 1..Len(unwrap(args.ignored_paths)) :
            path = unwrap(args.ignored_paths)[i]

is_inside_ignored_folder(path) ==
    /\ is_some(args.ignored_paths)
    /\ \E i \in 1..Len(unwrap(args.ignored_paths)) :
            starts_with(path, unwrap(args.ignored_paths)[i])

\* mutant: once a file is planned, a second one is planned only into the
\* same directory
plan_entry_beside_last(path) ==
    IF is_inside_ignored_folder(path) THEN NoneOpt
    ELSE LET file_datetime == get_file_date(metadata[path], args.file_date_types)
         IN  IF ~file_datetime.ok THEN NoneOpt
             ELSE IF ~should_move_file(file_datetime.val, args.group_by,
                        args.previous_period_only, args.older_than, now)
             THEN NoneOpt
             ELSE LET dest_path == calculate_dest_path(path, args.source,
                            args.destination,
                            group_folder(args.group_by, file_datetime.val))
                  IN  IF /\ dest_path.ok
                         /\ \A i \in 1..Len(files_to_move) :
                               SubSeq(files_to_move[i].destination, 1,
                                      Len(files_to_move[i].destination) - 1)
                                 = SubSeq(dest_path.val, 1, Len(dest_path.val) - 1)
                      THEN Some([source |-> path, destination |-> dest_path.val])
                      ELSE NoneOpt

\* the body of the for loop: Some(FileToMove), or NoneOpt when the file is
\* skipped
plan_entry(path) ==
    IF is_inside_ignored_folder(path) THEN NoneOpt
    ELSE LET file_datetime == get_file_date(metadata[path], args.file_date_types)
         IN  IF ~file_datetime.ok THEN NoneOpt
             ELSE IF ~should_move_file(file_datetime.val, args.group_by,
                        args.previous_period_only, args.older_than, now)
             THEN NoneOpt
             ELSE LET dest_path == calculate_dest_path(path, args.source,
                            args.destination,
                            group_folder(args.group_by, file_datetime.val))
                  IN  IF dest_path.ok
                      THEN Some([source |-> path, destination |-> dest_path.val])
                      ELSE NoneOpt

\* mutant: the first file whose date cannot be resolved ends the loop
get_files_to_move_iter_break ==
    /\ pc = "get_files_to_move"
    /\ index <= Len(entries)
    /\ files_to_move' = files_to_move \o plan_entry(entries[index])
    /\ index' = IF /\ ~is_inside_ignored_folder(entries[index])
                   /\ ~get_file_date(metadata[entries[index]],
                                     args.file_date_types).ok
                THEN Len(entries) + 1
                ELSE index + 1
    /\ UNCHANGED <<debug_assertions, pc, call, ret, args, now, metadata, entries>>
    /\ UNCHANGED runVars

\* mutant: a new entry goes to the front of the plan
get_files_to_move_iter_prepend ==
    /\ pc = "get_files_to_move"
    /\ index <= Len(entries)
    /\ files_to_move' = plan_entry(entries[index]) \o files_to_move
    /\ index' = index + 1
    /\ UNCHANGED <<debug_assertions, pc, call, ret, args, now, metadata, entries>>
    /\ UNCHANGED runVars

get_files_to_move_iter ==
    /\ pc = "get_files_to_move"
    /\ index <= Len(entries)
    /\ files_to_move' = files_to_move \o plan_entry(entries[index])
    /\ index' = index + 1
    /\ UNCHANGED <<debug_assertions, pc, call, ret, args, now, metadata, entries>>
    /\ UNCHANGED runVars

get_files_to_move_return ==
    /\ pc = "get_files_to_move"
    /\ index > Len(entries)
    /\ pc' = "move_files"
    /\ UNCHANGED <<debug_assertions, call, ret>>
    /\ UNCHANGED progVars

\* Path::parent of a path of at least two components
parent(path) == SubSeq(path, 1, Len(path) - 1)

\* fs::rename(from, to) on the files: the file at `to`, if any, is replaced
rename(from, to) ==
    [path \in (DOMAIN fs_files \ {from}) \cup {to} |->
        IF path = to THEN fs_files[from] ELSE fs_files[path]]

\* whether fs::rename(from, to) can succeed / can fail: it fails without a
\* file at `from` or with a directory at `to`, and otherwise may fail for a
\* reason outside the model (permissions, another file system)
rename_outcomes(from, to) ==
    IF from \notin DOMAIN fs_files \/ to \in fs_dirs THEN {FALSE} ELSE BOOLEAN

\* the body of the for loop of move_files
move_files_iter ==
    /\ pc = "move_files"
    /\ item <= Len(files_to_move)
    /\ LET source_path == files_to_move[item].source
           dest_path == files_to_move[item].destination
           moved == [kind |-> "moved", index |-> item, max |-> Len(files_to_move),
                     source |-> source_path, to |-> parent(dest_path)]
       IN  IF args.dry_run
           THEN /\ log' = Append(log, moved)
                /\ success_count' = success_count + 1
                /\ item' = item + 1
                /\ UNCHANGED <<pc, fs_files, fs_dirs>>
           ELSE \E reach \in Reaches(parent(dest_path)) :
                  /\ fs_dirs' = create_dir_all(parent(dest_path), reach)
                  /\ IF reach < Len(parent(dest_path))
                     THEN \* create_dir_all(parent)? returns the error
                          /\ pc' = "err"
                          /\ UNCHANGED <<fs_files, item, success_count, log>>
                     ELSE \E renamed \in rename_outcomes(source_path, dest_path) :
                            /\ item' = item + 1
                            /\ pc' = pc
                            /\ IF renamed
                               THEN /\ fs_files' = rename(source_path, dest_path)
                                    /\ log' = Append(log, moved)
                                    /\ success_count' = success_count + 1
                               ELSE /\ log' = Append(log,
                                          [kind |-> "ERROR", source |-> source_path])
                                    /\ UNCHANGED <<fs_files, success_count>>
    /\ UNCHANGED <<debug_assertions, call, ret, args, now, metadata, entries,
                   index, files_to_move, walk, found_empty, deleted_dirs>>

\* after the loop: the summary line, Ok(()), and main goes on
move_files_return ==
    /\ pc = "move_files"
    /\ item > Len(files_to_move)
    /\ log' = Append(log, [kind |-> IF args.dry_run THEN "DRY RUN" ELSE "Finished",
                           count |-> success_count])
    /\ pc' = "delete_empty_directories"
    /\ UNCHANGED <<debug_assertions, call, ret, args, now, metadata, entries,
                   index, files_to_move, fs_files, fs_dirs, item, success_count,
                   walk, found_empty, deleted_dirs>>

\* the orders in which WalkDir::new(root).min_depth(1) can yield the
\* directories below root: a directory before what it contains, and what it
\* contains before the next directory beside it
\* mutant: the walk yields the root as well
below_or_root(root) == {dir \in fs_dirs : starts_with(dir, root)}

below(root) == {dir \in fs_dirs : starts_with(dir, root) /\ dir # root}

WalkOrders(root) ==
    {order \in Orders(below(root)) :
        \A i, j \in DOMAIN order :
            /\ (starts_with(order[j], order[i]) /\ i # j) => i < j
            /\ (i < j /\ starts_with(order[j], order[i])) =>
                  \A k \in i..j : starts_with(order[k], order[i])}

\* fs::read_dir(path) yields nothing
is_empty_dir(path) ==
    /\ \A file \in DOMAIN fs_files : parent(file) # path
    /\ \A dir \in fs_dirs : Len(dir) < 2 \/ parent(dir) # path

\* mutant: dry-run does not stop the cleanup
delete_empty_directories_wet ==
    /\ pc = "delete_empty_directories"
    /\ IF args.keep_empty_folders
       THEN /\ pc' = "done"
            /\ UNCHANGED <<walk, found_empty>>
       ELSE /\ pc' = "delete_pass"
            /\ walk' \in WalkOrders(args.source)
            /\ found_empty' = FALSE
    /\ UNCHANGED <<debug_assertions, call, ret, args, now, metadata, entries,
                   index, files_to_move, fs_files, fs_dirs, item, success_count,
                   log, deleted_dirs>>

\* the early return of delete_empty_directories, or the start of its first
\* pass over the source root
delete_empty_directories ==
    /\ pc = "delete_empty_directories"
    /\ IF args.dry_run \/ args.keep_empty_folders
       THEN /\ pc' = "done"
            /\ UNCHANGED <<walk, found_empty>>
       ELSE /\ pc' = "delete_pass"
            /\ walk' \in WalkOrders(args.source)
            /\ found_empty' = FALSE
    /\ UNCHANGED <<debug_assertions, call, ret, args, now, metadata, entries,
                   index, files_to_move, fs_files, fs_dirs, item, success_count,
                   log, deleted_dirs>>

\* mutant: an empty directory is counted as found but is not removed
delete_pass_iter_keep ==
    /\ pc = "delete_pass"
    /\ walk # <<>>
    /\ walk' = Tail(walk)
    /\ LET path == Head(walk)
       IN  IF is_inside_ignored_folder(path)
           THEN UNCHANGED <<pc, fs_dirs, found_empty, deleted_dirs>>
           ELSE \E read \in BOOLEAN :
                  IF ~(read /\ path \in fs_dirs /\ is_empty_dir(path))
                  THEN UNCHANGED <<pc, fs_dirs, found_empty, deleted_dirs>>
                  ELSE /\ found_empty' = TRUE
                       /\ UNCHANGED <<pc, fs_dirs, deleted_dirs>>
    /\ UNCHANGED <<debug_assertions, call, ret, args, now, metadata, entries,
                   index, files_to_move, fs_files, item, success_count, log>>

\* the body of the inner for loop, for the next directory of the pass
delete_pass_iter ==
    /\ pc = "delete_pass"
    /\ walk # <<>>
    /\ walk' = Tail(walk)
    /\ LET path == Head(walk)
       IN  IF is_inside_ignored_folder(path)
           THEN UNCHANGED <<pc, fs_dirs, found_empty, deleted_dirs>>
           ELSE \E read \in BOOLEAN, removed \in BOOLEAN :
                  IF ~(read /\ path \in fs_dirs /\ is_empty_dir(path))
                  THEN UNCHANGED <<pc, fs_dirs, found_empty, deleted_dirs>>
                  ELSE IF removed
                  THEN /\ fs_dirs' = fs_dirs \ {path}
                       /\ deleted_dirs' = Append(deleted_dirs, path)
                       /\ found_empty' = TRUE
                       /\ pc' = pc
                  ELSE \* remove_dir(path)? returns the error
                       /\ pc' = "err"
                       /\ UNCHANGED <<fs_dirs, found_empty, deleted_dirs>>
    /\ UNCHANGED <<debug_assertions, call, ret, args, now, metadata, entries,
                   index, files_to_move, fs_files, item, success_count, log>>

\* the end of a pass: another pass when a directory was removed, else Ok(())
delete_pass_end ==
    /\ pc = "delete_pass"
    /\ walk = <<>>
    /\ IF found_empty
       THEN /\ walk' \in WalkOrders(args.source)
            /\ found_empty' = FALSE
            /\ pc' = pc
       ELSE /\ pc' = "done"
            /\ UNCHANGED <<walk, found_empty>>
    /\ UNCHANGED <<debug_assertions, call, ret, args, now, metadata, entries,
                   index, files_to_move, fs_files, fs_dirs, item, success_count,
                   log, deleted_dirs>>

Next ==
    \/ validate_arguments
    \/ get_files_to_move_iter
    \/ get_files_to_move_return

Spec == Init /\ [][Next]_vars

-----------------------------------------------------------------------------
(* planning when the source is a directory of the destination: a month     *)
(* folder of an earlier run is given as the source                         *)

NestedRoot == <<"/", "dest", "2025-05">>

NestedFiles == {NestedRoot \o <<"a", "note.md">>, NestedRoot \o <<"note.md">>}

NestedArgsSet ==
    [source : {NestedRoot},
     destination : {<<"/", "dest">>, NestedRoot},
     group_by : GroupBy \cup {None},
     previous_period_only : BOOLEAN,
     older_than : {NoneOpt},
     file_date_types : {<<"Modified">>},
     ignored_paths : {NoneOpt}]

InitNested ==
    /\ debug_assertions \in BOOLEAN
    /\ pc = "validate_arguments"
    /\ call = NoCall
    /\ ret = NoRet
    /\ args \in NestedArgsSet
    /\ now \in {Instant(2025, 6, 15, 0), Instant(2026, 1, 2, 1)}
    /\ metadata \in [NestedFiles -> FileMetadatas]
    /\ entries \in Orders(NestedFiles)
    /\ index = 1
    /\ files_to_move = <<>>
    /\ fs_files = [path \in NestedFiles |-> path]
    /\ fs_dirs = Tree(NestedFiles, {args.source, args.destination})
    /\ NotStarted

SpecNested == InitNested /\ [][Next]_vars

-----------------------------------------------------------------------------
(* main, to its end: the plan is executed and the source is cleaned up     *)

\* a file that is at the destination before the run
Present == <<"/", "dest", "note.md">>

RunMetadatas ==
    {[ok |-> TRUE, created |-> Some(Instant(2025, 5, 1, 0)),
      modified |-> Some(Instant(2025, 5, 1, 0)),
      accessed |-> Some(Instant(2025, 5, 1, 0))],
     [ok |-> TRUE, created |-> Some(Instant(2025, 4, 1, 0)),
      modified |-> Some(Instant(2025, 4, 1, 0)),
      accessed |-> Some(Instant(2025, 4, 1, 0))],
     [ok |-> FALSE, created |-> NoneOpt, modified |-> NoneOpt,
      accessed |-> NoneOpt]}

RunArgsSet ==
    [source : {SourceRoot},
     destination : {<<"/", "dest">>, SourceRoot},
     group_by : {None, "Month"},
     previous_period_only : {FALSE},
     older_than : {NoneOpt},
     file_date_types : {<<"Modified">>},
     ignored_paths : {NoneOpt, Some(<<SourceRoot \o <<"a">>>>)},
     dry_run : BOOLEAN,
     keep_empty_folders : BOOLEAN]

\* the source holds the two files and the empty directories /src/e/f; the
\* destination may be missing, and when it is there it may hold a file
InitRun ==
    /\ debug_assertions \in BOOLEAN
    /\ pc = "validate_arguments"
    /\ call = NoCall
    /\ ret = NoRet
    /\ args \in RunArgsSet
    /\ now = Instant(2025, 6, 15, 0)
    /\ metadata \in [Files -> RunMetadatas]
    /\ entries \in Orders(Files)
    /\ index = 1
    /\ files_to_move = <<>>
    /\ \E present \in SUBSET {Present} :
          /\ fs_files = [path \in Files \cup present |->
                            IF path \in Files THEN path ELSE <<"present">>]
          /\ fs_dirs \in {Tree(Files \cup present,
                                {args.source, SourceRoot \o <<"e", "f">>}),
                           Tree(Files \cup present,
                                {args.source, SourceRoot \o <<"e", "f">>,
                                 args.destination})}
    /\ NotStarted

NextRun ==
    \/ validate_arguments
    \/ get_files_to_move_iter
    \/ get_files_to_move_return
    \/ move_files_iter
    \/ move_files_return
    \/ delete_empty_directories
    \/ delete_pass_iter
    \/ delete_pass_end

SpecRun == InitRun /\ [][NextRun]_vars

\* delete_empty_directories runs in the one thread of main with nothing to
\* wait for: a step of it that can be taken is taken
SpecRunFair ==
    SpecRun /\ WF_vars(delete_empty_directories \/ delete_pass_iter
                          \/ delete_pass_end)

-----------------------------------------------------------------------------
(* Calendar periods, derived from day numbers alone                        *)

\* the Monday on or before day n
MondayOf(n) == n - ((n + 3) % 7)

\* an ISO week-year starts on the Monday of the week holding 4 January
IsoYearStart(y) == MondayOf(days_from_civil(y, 1, 4))

IsoYearOf(n) ==
    LET y == civil_from_days(n).year
    IN  IF n >= IsoYearStart(y + 1) THEN y + 1
        ELSE IF n >= IsoYearStart(y) THEN y
        ELSE y - 1

\* 1-based number of the week of day n within its ISO week-year
IsoWeekOf(n) == (n - IsoYearStart(IsoYearOf(n))) \div 7 + 1

Min(a, b) == IF a < b THEN a ELSE b

\* the running number of the period of granularity g that holds instant t:
\* consecutive periods have consecutive numbers, also across years
PeriodOrd(g, t) ==
    LET n == t \div TicksPerDay
        c == civil_from_days(n)
    IN  CASE g = "Week" -> MondayOf(n) \div 7
          [] g = "Biweekly" ->
                IsoYearOf(n) * 26 + Min((IsoWeekOf(n) - 1) \div 2, 25)
          [] g = "Month" -> c.year * 12 + (c.month - 1)
          [] g = "Trimester" -> c.year * 4 + (c.month - 1) \div 3
          [] g = "Quadrimester" -> c.year * 3 + (c.month - 1) \div 4
          [] g = "Semester" -> c.year * 2 + (c.month - 1) \div 6
          [] g = "Year" -> c.year

\* identify of the specification: the period identifier of instant t
Identify(g, t) ==
    LET n == t \div TicksPerDay
        c == civil_from_days(n)
    IN  CASE g = "Week" -> <<IsoYearOf(n), IsoWeekOf(n)>>
          [] g = "Biweekly" ->
                <<IsoYearOf(n), Min((IsoWeekOf(n) + 1) \div 2, 26)>>
          [] g = "Month" -> <<c.year, c.month>>
          [] g = "Trimester" -> <<c.year, (c.month + 2) \div 3>>
          [] g = "Quadrimester" -> <<c.year, (c.month + 3) \div 4>>
          [] g = "Semester" -> <<c.year, (c.month + 5) \div 6>>
          [] g = "Year" -> <<c.year>>

\* lexicographic order on identifiers of one length
RECURSIVE LexLess(_, _)
LexLess(a, b) ==
    IF Len(a) = 0 THEN FALSE
    ELSE Head(a) < Head(b) \/ (Head(a) = Head(b) /\ LexLess(Tail(a), Tail(b)))

\* reading a decimal numeral back
Digits == {"0", "1", "2", "3", "4", "5", "6", "7", "8", "9"}

DigitValue(ch) ==
    CASE ch = "0" -> 0 [] ch = "1" -> 1 [] ch = "2" -> 2 [] ch = "3" -> 3
      [] ch = "4" -> 4 [] ch = "5" -> 5 [] ch = "6" -> 6 [] ch = "7" -> 7
      [] ch = "8" -> 8 [] ch = "9" -> 9

IsNumeral(str) ==
    Len(str) > 0 /\ \A i \in 1..Len(str) : SubSeq(str, i, i) \in Digits

RECURSIVE NumeralValue(_)
NumeralValue(str) ==
    IF Len(str) = 0 THEN 0
    ELSE NumeralValue(SubSeq(str, 1, Len(str) - 1)) * 10
            + DigitValue(SubSeq(str, Len(str), Len(str)))

\* str is a numeral of exactly `width` digits of value a, then the text
\* `tag`, then a numeral of exactly `digits` digits of value b
\* (digits = 0: nothing follows the tag)
Reads(str, width, tag, digits, a, b) ==
    /\ Len(str) = width + Len(tag) + digits
    /\ IsNumeral(SubSeq(str, 1, width))
    /\ NumeralValue(SubSeq(str, 1, width)) = a
    /\ SubSeq(str, width + 1, width + Len(tag)) = tag
    /\ digits > 0 =>
          /\ IsNumeral(SubSeq(str, width + Len(tag) + 1, Len(str)))
          /\ NumeralValue(SubSeq(str, width + Len(tag) + 1, Len(str))) = b

-----------------------------------------------------------------------------
(* Claims                                                                  *)

\* the files of the walk handled so far
Handled == {entries[i] : i \in 1..(index - 1)}

InPlan(path) == \E i \in 1..Len(files_to_move) : files_to_move[i].source = path

PlanEntry(path) ==
    files_to_move[CHOOSE i \in 1..Len(files_to_move) : files_to_move[i].source = path]

\* a readable file outside the ignored paths, and its effective date
Eligible(path) ==
    /\ ~is_inside_ignored_folder(path)
    /\ get_file_date(metadata[path], args.file_date_types).ok

EffectiveDate(path) == get_file_date(metadata[path], args.file_date_types).val

YearMonth(t) ==
    <<civil_from_days(t \div TicksPerDay).year,
      civil_from_days(t \div TicksPerDay).month>>

\* C1: with previous-period-only and a granularity g, a file passes the
\* filters exactly when is_before_current_g(effectiveDate, now) holds and
\* there is no cutoff or effectiveDate < cutoff; so for Month and no cutoff a
\* readable, non-ignored file is in the plan exactly when its (year, month)
\* is lexicographically less than that of now, with destination
\* destRoot/<YYYY-mm of the file>/<path below the source root>, and the plan
\* is empty when every such file is dated in the month of now.
C1_PreviousPeriodOnly ==
    (pc \in {"get_files_to_move", "move_files"}
        /\ args.previous_period_only /\ args.group_by # None) =>
        /\ \A path \in Handled :
              InPlan(path) <=>
                  /\ Eligible(path)
                  /\ is_before_current(args.group_by, EffectiveDate(path), now)
                  /\ \/ ~is_some(args.older_than)
                     \/ EffectiveDate(path) < unwrap(args.older_than)
        /\ (args.group_by = "Month" /\ ~is_some(args.older_than)) =>
              /\ \A path \in Handled :
                    /\ InPlan(path) <=>
                          /\ Eligible(path)
                          /\ LexLess(YearMonth(EffectiveDate(path)), YearMonth(now))
                    /\ InPlan(path) =>
                          LET dest == PlanEntry(path).destination
                              d == Len(args.destination)
                              rel == SubSeq(path, Len(args.source) + 1, Len(path))
                          IN  /\ Len(dest) = d + 1 + Len(rel)
                              /\ SubSeq(dest, 1, d) = args.destination
                              /\ Reads(dest[d + 1], 4, "-", 2,
                                       YearMonth(EffectiveDate(path))[1],
                                       YearMonth(EffectiveDate(path))[2])
                              /\ SubSeq(dest, d + 2, Len(dest)) = rel
              /\ (\A path \in Handled :
                      Eligible(path) =>
                          YearMonth(EffectiveDate(path)) = YearMonth(now))
                    => files_to_move = <<>>

\* C1 witness: /src/a/note.md dated 2025-05-01, now = 2025-06-15, Month,
\* previous-period-only, no cutoff: the finished plan is the one entry
\* /src/a/note.md -> /dest/2025-05/a/note.md.
C1_Witness ==
    /\ pc = "move_files"
    /\ args.previous_period_only /\ args.group_by = "Month"
    /\ ~is_some(args.older_than)
    /\ now = Instant(2025, 6, 15, 0)
    /\ files_to_move = <<[source |-> <<"/", "src", "a", "note.md">>,
                          destination |-> <<"/", "dest", "2025-05", "a", "note.md">>]>>

\* C2: whenever an age cutoff is configured and the effective date is at or
\* after it, should_move_file returns false, whatever group_by,
\* previous_period_only and now are; a date strictly before the cutoff is
\* not excluded by the cutoff (the answer is the one given without a cutoff).
C2_AgeCutoff ==
    (returned /\ call.fn = "should_move_file" /\ is_some(call.older_than)) =>
        /\ call.file_datetime >= unwrap(call.older_than) => ret.val = FALSE
        /\ call.file_datetime < unwrap(call.older_than) =>
              ret.val = should_move_file(call.file_datetime, call.group_by,
                            call.previous_period_only, NoneOpt, call.now)

\* C2 witness: a file dated exactly at the cutoff, with no other filter, is
\* excluded.
C2_Witness ==
    /\ returned /\ call.fn = "should_move_file"
    /\ call.older_than = Some(call.file_datetime)
    /\ ~call.previous_period_only
    /\ ret.val = FALSE

\* C3: for a source path sourceRoot/rel with rel non-empty,
\* calculate_dest_path returns destRoot/group/rel when a group folder is
\* given and destRoot/rel when none is: rel is kept segment by segment and
\* the group folder is exactly one segment, directly under destRoot.
C3_DestPath ==
    (returned /\ call.fn = "calculate_dest_path") =>
        \A rel \in Rels :
            call.source_path = call.source_root \o rel =>
                LET g == IF call.group_folder = None THEN 0 ELSE 1
                    d == Len(call.dest_root)
                IN  /\ ret.val.ok
                    /\ Len(ret.val.val) = d + g + Len(rel)
                    /\ \A i \in 1..d : ret.val.val[i] = call.dest_root[i]
                    /\ g = 1 => ret.val.val[d + 1] = call.group_folder
                    /\ \A i \in 1..Len(rel) : ret.val.val[d + g + i] = rel[i]

\* C3 witness: a file two directories below the source root, with a group
\* folder.
C3_Witness ==
    /\ returned /\ call.fn = "calculate_dest_path"
    /\ call.source_path = call.source_root \o <<"work", "a", "note.md">>
    /\ call.group_folder = "2025-05"
    /\ ret.val.ok
    /\ ret.val.val = call.dest_root \o <<"2025-05", "work", "a", "note.md">>

\* C4: for each granularity, is_before_current(T, NOW) is false when T lies
\* in the period of NOW, true when T lies in the period just before it (also
\* when that period belongs to the previous year), and false when T lies in
\* a later period.
C4_BeforeCurrentByPeriod ==
    (returned /\ call.fn = "is_before_current") =>
        LET p == PeriodOrd(call.group, call.date)
            q == PeriodOrd(call.group, call.now)
        IN  /\ p = q => ret.val = FALSE
            /\ p = q - 1 => ret.val = TRUE
            /\ p > q => ret.val = FALSE

\* C4 witness: a week of the previous ISO week-year that is the week just
\* before the one of NOW, answered true.
C4_Witness ==
    /\ returned /\ call.fn = "is_before_current" /\ call.group = "Week"
    /\ PeriodOrd("Week", call.date) = PeriodOrd("Week", call.now) - 1
    /\ IsoYearOf(date_naive(call.date)) = IsoYearOf(date_naive(call.now)) - 1
    /\ ret.val = TRUE

\* C5: each of the seven is_before_current_* functions gives the answer of
\* the one generic comparator Identify(g, T) <lex Identify(g, NOW), with the
\* ISO week-year for Week and Biweekly and the calendar year for the others.
C5_GenericComparator ==
    (returned /\ call.fn = "is_before_current") =>
        ret.val = LexLess(Identify(call.group, call.date),
                          Identify(call.group, call.now))

\* C5 witness: a Biweekly comparison of a date whose ISO week-year differs
\* from its calendar year, against a NOW of that calendar year.
C5_Witness ==
    /\ returned /\ call.fn = "is_before_current" /\ call.group = "Biweekly"
    /\ IsoYearOf(date_naive(call.date)) # civil_from_days(date_naive(call.date)).year
    /\ civil_from_days(date_naive(call.now)).year
            = civil_from_days(date_naive(call.date)).year
    /\ IsoYearOf(date_naive(call.now)) = civil_from_days(date_naive(call.now)).year

\* C6: calculate_biweekly(w) = (w-1) div 2 + 1 for w in 1..50, and 26 for
\* w in 51..53.
C6_Biweekly ==
    (returned /\ call.fn = "calculate_biweekly") =>
        /\ call.arg \in 1..50 => ret.val = (call.arg - 1) \div 2 + 1
        /\ call.arg \in 51..53 => ret.val = 26

\* C6 witness: week 50, the last week before the collapsed bucket, gives 25.
C6_Witness ==
    returned /\ call.fn = "calculate_biweekly" /\ call.arg = 50 /\ ret.val = 25

\* the ISO weeks of ISO week-year y: 28 December always lies in the last one
WeeksOf(y) == 1..iso_week(days_from_civil(y, 12, 28) * TicksPerDay).week

\* C7: in every ISO week-year, of 52 or of 53 weeks, the biweekly buckets of
\* its weeks are exactly 1..26, and each bucket holds at least 2 of its weeks.
C7_BiweeklyBuckets ==
    (returned /\ call.fn = "group_folder" /\ call.group = "Biweekly") =>
        LET W == WeeksOf(iso_week(call.date).year)
        IN  /\ {calculate_biweekly(w) : w \in W} = 1..26
            /\ \A b \in 1..26 :
                    Cardinality({w \in W : calculate_biweekly(w) = b}) >= 2

\* C7 witness: a date in week 53 of an ISO week-year is filed under BW26.
C7_Witness ==
    /\ returned /\ call.fn = "group_folder" /\ call.group = "Biweekly"
    /\ IsoWeekOf(date_naive(call.date)) = 53
    /\ Reads(ret.val, 4, "-BW", 2, IsoYearOf(date_naive(call.date)), 26)

\* C8: for every month m in 1..12, calculate_semester(m) is 1 when m <= 6
\* and 2 otherwise, calculate_trimester(m) = (m-1) div 3 + 1 lies in 1..4,
\* and calculate_quadrimester(m) = (m-1) div 4 + 1 lies in 1..3.
C8_MonthPeriods ==
    (returned /\ call.arg \in 1..12) =>
        /\ call.fn = "calculate_semester" =>
                ret.val = (IF call.arg <= 6 THEN 1 ELSE 2)
        /\ call.fn = "calculate_trimester" =>
                ret.val = (call.arg - 1) \div 3 + 1 /\ ret.val \in 1..4
        /\ call.fn = "calculate_quadrimester" =>
                ret.val = (call.arg - 1) \div 4 + 1 /\ ret.val \in 1..3

\* C8 witness: June is still in the first semester.
C8_Witness ==
    returned /\ call.fn = "calculate_semester" /\ call.arg = 6 /\ ret.val = 1

Range(seq) == {seq[i] : i \in 1..Len(seq)}

\* the raw timestamp of one kind
RawTime(md, kind) ==
    CASE kind = "Created" -> unwrap(md.created)
      [] kind = "Modified" -> unwrap(md.modified)
      [] kind = "Accessed" -> unwrap(md.accessed)

\* C10: for a non-empty list of requested kinds and a triple of raw
\* timestamps, get_file_date returns the maximum of the timestamps of the
\* listed kinds: one of them, at least each of them, and the same for every
\* list of the same kinds in any order and with any repetition.
C10_EffectiveDateIsMax ==
    (/\ returned /\ call.fn = "get_file_date"
     /\ Len(call.date_types) > 0
     /\ call.md.ok /\ is_some(call.md.created)
     /\ is_some(call.md.modified) /\ is_some(call.md.accessed)) =>
        LET requested == {RawTime(call.md, k) : k \in Range(call.date_types)}
        IN  /\ ret.val.ok
            /\ ret.val.val \in requested
            /\ \A t \in requested : ret.val.val >= t
            /\ \A other \in SeqsUpTo(FileDateType, MaxKinds) :
                    Range(other) = Range(call.date_types) =>
                        get_file_date(call.md, other) = ret.val

\* C10 witness: created is the later of created and modified, both are
\* requested with created first, and created is returned.
C10_Witness ==
    /\ returned /\ call.fn = "get_file_date"
    /\ call.date_types = <<"Created", "Modified">>
    /\ call.md.ok /\ is_some(call.md.created)
    /\ is_some(call.md.modified) /\ is_some(call.md.accessed)
    /\ unwrap(call.md.created) > unwrap(call.md.modified)
    /\ unwrap(call.md.accessed) > unwrap(call.md.created)
    /\ ret.val = Ok(unwrap(call.md.created))

\* C11: with an empty list of requested kinds get_file_date fails with an
\* error for every file, whatever its metadata, and returns no timestamp.
C11_NoKindsIsAnError ==
    (pc = "return" /\ call.fn = "get_file_date" /\ Len(call.date_types) = 0) =>
        /\ ~ret.panic
        /\ ~ret.val.ok

\* C11 witness: a file whose three timestamps can all be read, no kind
\* requested: the error is the one of the empty list.
C11_Witness ==
    /\ pc = "return" /\ call.fn = "get_file_date" /\ call.date_types = <<>>
    /\ call.md.ok /\ is_some(call.md.created)
    /\ is_some(call.md.modified) /\ is_some(call.md.accessed)
    /\ ret = Returned(Err("At least one file date type must be provided"))

\* C12: calculate_semester, calculate_trimester and calculate_quadrimester
\* called with a month outside 1..12, and calculate_biweekly called with an
\* ISO week outside 1..53, panic and return no period index.
C12_PanicOutOfRange ==
    (/\ pc = "return"
     /\ call.fn \in ArithFns
     /\ IF call.fn = "calculate_biweekly" THEN call.arg \notin 1..53
        ELSE call.arg \notin 1..12) =>
        ret.panic

\* C13: without a granularity the previous-period-only flag is inert:
\* should_move_file(date, None, true, cutoff, now) equals
\* should_move_file(date, None, false, cutoff, now), so a readable,
\* non-ignored file is planned exactly when it passes the age cutoff; and
\* validate_arguments rejects nothing but source = destination, so never
\* this configuration.
C13_FlagInertWithoutGroup ==
    /\ pc = "bail" => args.source = args.destination
    /\ (pc \in {"get_files_to_move", "move_files"} /\ args.group_by = None) =>
          \A path \in Handled :
              /\ Eligible(path) =>
                    should_move_file(EffectiveDate(path), None, TRUE,
                                     args.older_than, now)
                      = should_move_file(EffectiveDate(path), None, FALSE,
                                         args.older_than, now)
              /\ InPlan(path) <=>
                    /\ Eligible(path)
                    /\ \/ ~is_some(args.older_than)
                       \/ EffectiveDate(path) < unwrap(args.older_than)

\* C13 witness: previous-period-only without a granularity passed validation
\* and a file dated later than now (so in no previous period) is planned.
C13_Witness ==
    /\ pc = "move_files"
    /\ args.group_by = None /\ args.previous_period_only
    /\ ~is_some(args.older_than)
    /\ now = Instant(2025, 6, 15, 0)
    /\ \E path \in Files :
          /\ Eligible(path) /\ EffectiveDate(path) = Instant(2025, 6, 15, 1)
          /\ InPlan(path)
          /\ PlanEntry(path).destination
                = args.destination \o SubSeq(path, 3, Len(path))

\* C14: no two entries of a plan with different source paths have the same
\* destination path, whether their group folders are equal or different.
C14_CollisionFree ==
    \A i, j \in 1..Len(files_to_move) :
        files_to_move[i].source # files_to_move[j].source =>
            files_to_move[i].destination # files_to_move[j].destination

\* C14 witness: /src/a/note.md and /src/note.md, same file name, are both
\* planned into the same group folder.
C14_Witness ==
    /\ pc = "move_files"
    /\ args.group_by = "Month"
    /\ Len(files_to_move) = 2
    /\ files_to_move[1].source # files_to_move[2].source
    /\ files_to_move[1].destination[3] = files_to_move[2].destination[3]
    /\ files_to_move[1].destination # files_to_move[2].destination

\* a path of the same shape as the walked ones that is not below the source
\* root
Elsewhere == <<"/", "elsewhere", "note.md">>

\* C15: a file whose effective date cannot be resolved is absent from the
\* plan, the files yielded after it are still evaluated (each is planned
\* exactly when it is readable, not ignored and passes the filters), and
\* get_files_to_move returns its plan after the last yielded file: the run
\* bails only before planning. calculate_dest_path fails for a path that does
\* not have the source root as a prefix.
C15_PerFileFailureNotFatal ==
    /\ pc = "bail" => index = 1 /\ files_to_move = <<>>
    /\ pc = "move_files" => index = Len(entries) + 1
    /\ pc \in {"get_files_to_move", "move_files"} =>
          /\ \A path \in Handled :
                /\ ~get_file_date(metadata[path], args.file_date_types).ok
                      => ~InPlan(path)
                /\ InPlan(path) <=>
                      /\ Eligible(path)
                      /\ should_move_file(EffectiveDate(path), args.group_by,
                              args.previous_period_only, args.older_than, now)
          /\ \A folder \in {None, "2025-05"} :
                ~calculate_dest_path(Elsewhere, args.source, args.destination,
                                     folder).ok

\* C15 witness: the first file yielded cannot be dated, the second is
\* planned, and get_files_to_move has returned the plan.
C15_Witness ==
    /\ pc = "move_files"
    /\ ~is_inside_ignored_folder(entries[1])
    /\ ~get_file_date(metadata[entries[1]], args.file_date_types).ok
    /\ Len(files_to_move) = 1
    /\ files_to_move[1].source = entries[2]

\* position of a yielded file in the traversal
Position(path) == CHOOSE i \in 1..Len(entries) : entries[i] = path

\* C19: the source paths of the plan are a subsequence of the files yielded
\* by the traversal: every entry is of a file yielded so far, an entry that
\* precedes another is of a file yielded earlier, and so no file has two
\* entries.
C19_TraversalOrder ==
    /\ \A i \in 1..Len(files_to_move) : files_to_move[i].source \in Handled
    /\ \A i, j \in 1..Len(files_to_move) :
          i < j => Position(files_to_move[i].source)
                     < Position(files_to_move[j].source)

\* C19 witness: both files are planned, /src/note.md yielded first.
C19_Witness ==
    /\ pc = "move_files"
    /\ entries = <<SourceRoot \o <<"note.md">>, SourceRoot \o <<"a", "note.md">>>>
    /\ Len(files_to_move) = 2
    /\ files_to_move[1].source = entries[1]
    /\ files_to_move[2].source = entries[2]

\* a path lies within an ignored path when the components of some
\* ignored-path entry are its first components
WithinIgnored(path) ==
    /\ args.ignored_paths # NoneOpt
    /\ \E ignored \in Range(args.ignored_paths[1]) :
          /\ Len(ignored) <= Len(path)
          /\ \A k \in 1..Len(ignored) : path[k] = ignored[k]

\* C20: no plan entry has a source within an ignored path, whatever its date
\* and the filters; a file within no ignored path is not skipped by the
\* ignored-path step: it is planned when it is readable and passes the
\* filters.
C20_IgnoredPaths ==
    pc \in {"get_files_to_move", "move_files"} =>
        /\ \A i \in 1..Len(files_to_move) :
              ~WithinIgnored(files_to_move[i].source)
        /\ \A path \in Handled :
              ~WithinIgnored(path) =>
                  /\ ~is_inside_ignored_folder(path)
                  /\ (/\ get_file_date(metadata[path], args.file_date_types).ok
                      /\ should_move_file(EffectiveDate(path), args.group_by,
                             args.previous_period_only, args.older_than, now))
                        => InPlan(path)

\* C20 witness: /src/a is ignored; /src/a/note.md, old enough to pass every
\* filter, is not planned, and /src/note.md is.
C20_Witness ==
    /\ pc = "move_files"
    /\ args.ignored_paths = Some(<<SourceRoot \o <<"a">>>>)
    /\ get_file_date(metadata[SourceRoot \o <<"a", "note.md">>],
                     args.file_date_types).ok
    /\ should_move_file(EffectiveDate(SourceRoot \o <<"a", "note.md">>),
           args.group_by, args.previous_period_only, args.older_than, now)
    /\ ~InPlan(SourceRoot \o <<"a", "note.md">>)
    /\ InPlan(SourceRoot \o <<"note.md">>)

\* the lines of a kind written so far
Lines(kind) == {k \in DOMAIN log : log[k].kind = kind}

\* C16: once the rename of a plan entry has failed (an ERROR line), the
\* entries after it are all attempted: move_files does not return an error
\* with an entry left; the failed entry is not counted as moved.
C16_RenameFailureDoesNotBlock ==
    Lines("ERROR") # {} =>
        /\ pc = "err" => item > Len(files_to_move)
        /\ success_count = Cardinality(Lines("moved"))

\* C17: a failure to create the parent directory of an entry's destination
\* does not keep the entries after it from being attempted: the run never
\* ends in an error with an entry after the current one left.
C17_DirectoryFailureDoesNotBlock ==
    pc = "err" => item >= Len(files_to_move)

\* C18: under dry-run no step of move_files or delete_empty_directories
\* changes the files or the directories, every plan entry is counted as
\* moved, neither call fails, and the cleanup makes no pass.
C18_DryRunOnlyReports ==
    /\ [](args.dry_run =>
            /\ pc \notin {"err", "delete_pass"}
            /\ deleted_dirs = <<>>
            /\ pc \in {"delete_empty_directories", "done"} =>
                  /\ success_count = Len(files_to_move)
                  /\ Cardinality(Lines("moved")) = Len(files_to_move)
                  /\ log[Len(log)] = [kind |-> "DRY RUN",
                                      count |-> Len(files_to_move)])
    /\ [][(args.dry_run /\ pc \in {"move_files", "delete_empty_directories"})
             => (fs_files' = fs_files /\ fs_dirs' = fs_dirs)]_vars

\* C18 witness: a dry run is over; both files were planned and counted, both
\* are still in the source, no group folder was made, and the empty
\* directory /src/e/f is still there.
C18_Witness ==
    /\ pc = "done"
    /\ args.dry_run /\ ~args.keep_empty_folders
    /\ args.group_by = "Month"
    /\ Len(files_to_move) = 2 /\ success_count = 2
    /\ Files \subseteq DOMAIN fs_files
    /\ \A i \in 1..2 : parent(files_to_move[i].destination) \notin fs_dirs
    /\ SourceRoot \o <<"e", "f">> \in fs_dirs
    /\ is_empty_dir(SourceRoot \o <<"e", "f">>)

\* what the configuration, now and one file's own path and raw timestamps
\* give for that file: <<>> when it is not planned, else its one entry
OwnEntries(path, md) ==
    LET date == get_file_date(md, args.file_date_types)
    IN  IF WithinIgnored(path) \/ ~date.ok THEN <<>>
        ELSE IF ~should_move_file(date.val, args.group_by,
                    args.previous_period_only, args.older_than, now)
        THEN <<>>
        ELSE <<[source |-> path,
                destination |->
                    calculate_dest_path(path, args.source, args.destination,
                        group_folder(args.group_by, date.val)).val]>>

\* C21: whether a traversed file is in the plan, and its destination, are a
\* function of the configuration, now and that file's own path and raw
\* timestamps: the entries of the plan with a given source are the same
\* whatever the other files and their timestamps are, and wherever in the
\* traversal the file comes.
C21_FilesDecidedIndependently ==
    pc \in {"get_files_to_move", "move_files"} =>
        \A path \in Handled :
            SelectSeq(files_to_move, LAMBDA e : e.source = path)
                = OwnEntries(path, metadata[path])

\* C21 witness: /src/note.md is planned while the other file, yielded before
\* it, cannot be dated; states with the same /src/note.md beside a planned
\* /src/a/note.md are covered by the same formula.
C21_Witness ==
    /\ pc = "move_files"
    /\ entries = <<SourceRoot \o <<"a", "note.md">>, SourceRoot \o <<"note.md">>>>
    /\ ~metadata[entries[1]].ok
    /\ args.group_by = "Week"
    /\ Len(files_to_move) = 1
    /\ files_to_move[1].source = SourceRoot \o <<"note.md">>

\* C22: no step replaces a file that is already there: a path that holds a
\* file before and after a step holds the same file.
C22_NoOverwrite ==
    [][\A path \in DOMAIN fs_files \cap DOMAIN fs_files' :
            fs_files'[path] = fs_files[path]]_vars

\* C23: when validate_arguments has accepted the configuration, no entry of
\* the plan has its own source path as destination.
C23_DestinationIsNotSource ==
    pc \in {"get_files_to_move", "move_files"} =>
        \A i \in 1..Len(files_to_move) :
            files_to_move[i].destination # files_to_move[i].source

\* C24: with previous-period-only and a granularity g, the group folder of
\* every plan entry, as computed from the file's effective date and as found
\* in its destination path, differs from the group folder g gives for now.
C24_NotInCurrentFolder ==
    (pc \in {"get_files_to_move", "move_files"}
        /\ args.previous_period_only /\ args.group_by # None) =>
        \A i \in 1..Len(files_to_move) :
            LET entry == files_to_move[i]
                current == group_folder(args.group_by, now)
            IN  /\ group_folder(args.group_by, EffectiveDate(entry.source))
                      # current
                /\ entry.destination[Len(args.destination) + 1] # current

\* C24 witness: by Week, now = 2026-01-02; the file of 2025-12-29, in the
\* same ISO week as now though in another calendar year, is left out and the
\* file of 2025-05-01 is planned into 2025-W18, not 2026-W01.
C24_Witness ==
    /\ pc = "move_files"
    /\ args.previous_period_only /\ args.group_by = "Week"
    /\ now = Instant(2026, 1, 2, 1)
    /\ \E kept, planned \in Files :
          /\ Eligible(kept) /\ EffectiveDate(kept) = Instant(2025, 12, 29, 0)
          /\ ~InPlan(kept)
          /\ Eligible(planned) /\ EffectiveDate(planned) = Instant(2025, 5, 1, 0)
          /\ InPlan(planned)
          /\ PlanEntry(planned).destination[3] = "2025-W18"
          /\ group_folder("Week", now) = "2026-W01"

\* the period identifier date.rs computes for an instant, by granularity
PeriodOf(g, t) ==
    CASE g = "Week" -> get_current_week(t)
      [] g = "Biweekly" -> get_current_biweekly(t)
      [] g = "Month" -> get_current_month(t)
      [] g = "Trimester" -> get_current_trimester(t)
      [] g = "Quadrimester" -> get_current_quadrimester(t)
      [] g = "Semester" -> get_current_semester(t)
      [] g = "Year" -> <<get_current_year(t)>>

\* C25: for each granularity the period identifier is monotone in time: of
\* two instants the earlier never has the lexicographically greater
\* identifier; so is_before_current(T, NOW) true implies T < NOW, and
\* is_before_current(T, T) is false.
C25_IdentifierMonotone ==
    (returned /\ call.fn = "is_before_current") =>
        /\ call.date <= call.now =>
              ~LexLess(PeriodOf(call.group, call.now),
                       PeriodOf(call.group, call.date))
        /\ call.now <= call.date =>
              ~LexLess(PeriodOf(call.group, call.date),
                       PeriodOf(call.group, call.now))
        /\ ret.val => call.date < call.now
        /\ ~is_before_current(call.group, call.date, call.date)
        /\ ~is_before_current(call.group, call.now, call.now)

\* C25 witness: Biweekly, T in ISO week 51 and a later NOW in ISO week 53 of
\* the same ISO year: both are in bucket 26 and T is not before the current
\* period.
C25_Witness ==
    /\ returned /\ call.fn = "is_before_current"
    /\ call.group = "Biweekly"
    /\ call.date < call.now
    /\ iso_week(call.date).week = 51
    /\ iso_week(call.now).week = 53
    /\ PeriodOf("Biweekly", call.date) = <<2026, 26>>
    /\ PeriodOf("Biweekly", call.now) = <<2026, 26>>
    /\ ret.val = FALSE

\* what retrieving one kind of timestamp gives: Some(instant), or NoneOpt
\* when the retrieval fails
Retrieved(md, kind) ==
    CASE kind = "Created" -> md.created
      [] kind = "Modified" -> md.modified
      [] kind = "Accessed" -> md.accessed

\* the same outcome: both fail, whatever the message, or both give the same
\* instant
SameOutcome(a, b) == a.ok = b.ok /\ (a.ok => a.val = b.val)

\* C29: for a non-empty list of requested kinds, two files whose metadata
\* can be read and that agree on every requested kind get the same outcome
\* from get_file_date, whatever the non-requested kinds are and whether or
\* not retrieving them fails.
C29_OnlyRequestedKinds ==
    (/\ returned /\ call.fn = "get_file_date"
     /\ Len(call.date_types) > 0 /\ call.md.ok) =>
        \A other \in Metadatas :
            (/\ other.ok
             /\ \A kind \in Range(call.date_types) :
                    Retrieved(other, kind) = Retrieved(call.md, kind))
                => SameOutcome(get_file_date(other, call.date_types), ret.val)

\* an entry of directory dir: a path one component longer that begins with it
EntryOf(path, dir) ==
    Len(path) = Len(dir) + 1 /\ \A k \in 1..Len(dir) : path[k] = dir[k]

\* strictly below root
StrictlyBelow(dir, root) ==
    Len(dir) > Len(root) /\ \A k \in 1..Len(root) : dir[k] = root[k]

\* what a step of delete_empty_directories may change of the file system
CleanupStep ==
    pc \in {"delete_empty_directories", "delete_pass"} =>
        /\ fs_files' = fs_files
        /\ fs_dirs' \subseteq fs_dirs
        /\ \A dir \in fs_dirs \ fs_dirs' :
              /\ StrictlyBelow(dir, args.source)
              /\ ~WithinIgnored(dir)
              /\ \A path \in DOMAIN fs_files \cup fs_dirs : ~EntryOf(path, dir)
              /\ ~args.dry_run /\ ~args.keep_empty_folders

C28_NoEmptyDirectoryLeft ==
    (pc = "done" /\ ~args.dry_run /\ ~args.keep_empty_folders) =>
        \A dir \in fs_dirs :
            (StrictlyBelow(dir, args.source) /\ ~WithinIgnored(dir)) =>
                \E path \in DOMAIN fs_files \cup fs_dirs : EntryOf(path, dir)

\* what a step of a pass does to found_empty, and where a pass can end
PassStep ==
    /\ (pc = "delete_pass" /\ ~found_empty /\ found_empty') =>
          /\ Cardinality(fs_dirs') < Cardinality(fs_dirs)
          /\ Len(deleted_dirs') = Len(deleted_dirs) + 1
    /\ (pc = "delete_pass" /\ pc' = "done") => (walk = <<>> /\ ~found_empty)
    /\ (pc = "delete_pass" /\ walk = <<>> /\ ~found_empty) => pc' = "done"
    /\ (pc = "delete_pass" /\ walk = <<>> /\ found_empty) =>
          (pc' = "delete_pass" /\ ~found_empty')

\* C26: delete_empty_directories terminates: once called it returns, with
\* success or at the first removal error; found_empty is set only by a step
\* that removes a directory, a pass that removed one is followed by another
\* pass, and the loop exits at the end of the first pass that removed none.
C26_CleanupTerminates ==
    /\ [][PassStep]_vars
    /\ (pc = "delete_empty_directories") ~> (pc \in {"done", "err"})

\* C26 witness: the cleanup returned after three passes: /src/e/f went in
\* the first, /src/e in the second, and the third removed nothing.
C26_Witness ==
    /\ pc = "done"
    /\ walk = <<>> /\ ~found_empty
    /\ deleted_dirs = <<SourceRoot \o <<"e", "f">>, SourceRoot \o <<"e">>>>

====
